---------------------------- MODULE Spec2Model ----------------------------
(***************************************************************************)
(* Model of src/app.py: a Flask application whose durable state is two     *)
(* Google Sheets worksheets ("Prices" and "Transactions") and whose        *)
(* transient state is one session per browser.                             *)
(*                                                                         *)
(* Numbers.  Every float the model handles is a multiple of 0.25 with a    *)
(* small numerator, so it and every product weight * price are exact in   *)
(* binary floating point; a float is modelled by the integer 4 * value    *)
(* ("quarters").  round(x, 2) of such a product is then exact             *)
(* round-half-to-even, and an amount is modelled by its number of cents.  *)
(*                                                                         *)
(* Dicts.  A Python dict is a sequence of <<key, value>> pairs with        *)
(* distinct keys, in insertion order.                                      *)
(*                                                                         *)
(* Requests.  A request is handled in one atomic action; every call it     *)
(* makes to the store may fail (raise), ensure_worksheet before it writes. *)
(*                                                                         *)
(* Module-level names.  app.py defines employee_payout and                 *)
(* employee_receipt twice; the model follows the later definitions         *)
(* (lines 274-333), the ones the module's names are bound to.              *)
(***************************************************************************)
EXTENDS Integers, Sequences, FiniteSets, TLC

\* ------------------------------------------------------------------ bounds
MaxCalls == 1
MaxClock == 1

Sessions == {"s1", "s2"}
Materials == {"Plastic", "Copper"}

\* ------------------------------------------------------- program constants
ADMIN_USER == "admin"
ADMIN_PASS == "password123"

\* inputs a browser may send
Users == {"admin", "guest"}
Passwords == {"password123", "letmein"}
NameInputs == {"Al", "  "}
WeightInputs == {"", "abc", " 1.5 "}
PriceInputs == {"", "abc", "0.250"}

\* ------------------------------------------------------------ conversions
\* str.strip()
Strip(s) ==
    CASE s = "  " -> ""
      [] s = " 1.5 " -> "1.5"
      [] OTHER -> s

\* the strings float() accepts, and the cells a number is read back from
Numerals == {"0", "0.25", "0.250", "1.5", "2.5"}

CanFloat(s) == s \in Numerals

\* float(s), in quarters
Float(s) ==
    CASE s = "0" -> 0
      [] s = "0.25" -> 1
      [] s = "0.250" -> 1
      [] s = "1.5" -> 6
      [] s = "2.5" -> 10

\* the cell a float is stored as by ws.append_row([mat, float(price)])
CellOf(q) ==
    CASE q = 0 -> "0"
      [] q = 1 -> "0.25"
      [] q = 6 -> "1.5"
      [] q = 10 -> "2.5"

\* n / d rounded to the nearest integer, ties to even (d > 0)
RoundHalfEven(n, d) ==
    LET q == n \div d
        r == n % d
    IN  IF 2 * r < d THEN q
        ELSE IF 2 * r > d THEN q + 1
        ELSE IF q % 2 = 0 THEN q ELSE q + 1

\* round(x, 2) of a product of two floats: x in sixteenths, result in cents
Round2(x) == RoundHalfEven(25 * x, 4)

\* ------------------------------------------------------------------ dicts
DictKeys(d) == {d[i][1] : i \in DOMAIN d}

DictGet(d, k, default) ==
    IF k \in DictKeys(d)
    THEN d[CHOOSE i \in DOMAIN d : d[i][1] = k][2]
    ELSE default

DictPut(d, k, v) ==
    IF k \in DictKeys(d)
    THEN [i \in DOMAIN d |-> IF d[i][1] = k THEN <<k, v>> ELSE d[i]]
    ELSE Append(d, <<k, v>>)

RECURSIVE DictUpdate(_, _)
DictUpdate(d, e) ==
    IF e = <<>> THEN d
    ELSE DictUpdate(DictPut(d, e[1][1], e[1][2]), Tail(e))

\* -------------------------------------------------------------- the store
VARIABLES
    prices,     \* the Prices worksheet: [header, rows], rows of <<Material, Price cell>>
    tx,         \* the Transactions worksheet: [exists, header, rows]
    txCall,     \* history: for each row of tx.rows, the call that appended it
    nCalls,     \* history: calls of append_transactions so far
    clock,      \* datetime.now(), in seconds
    session,    \* the Flask session of each browser
    sub,        \* history: the last payout POST of each session
    last        \* history: the last step, and what the request it handled returned

vars == <<prices, tx, txCall, nCalls, clock, session, sub, last>>

PRICES_HEADERS == <<"Material", "Price">>
TRANSACTIONS_HEADERS == <<"Date", "Employee", "Material", "Weight", "Price", "Amount">>

\* op: the handler; ok, err: what its store write returned; wrote: save_prices was
\* called; catOk: its get_materials call (for a payout, the one of
\* append_transactions) read the sheet; n: rows appended; items, total: the receipt
\* rendered; before, merged, provided: the rows of the Prices sheet before a
\* save_prices that returned (True, None), the dict given to it and the keys of
\* new_prices; junk: the materials whose weight field float() refused
NoLast ==
    [op |-> "none", sess |-> "", ok |-> FALSE, err |-> "", wrote |-> FALSE,
     user |-> "", pwd |-> "", catOk |-> FALSE, n |-> 0,
     items |-> <<>>, total |-> 0, before |-> <<>>, provided |-> {},
     merged |-> <<>>, junk |-> {}]

NoSub == [called |-> FALSE, ok |-> FALSE, call |-> 0]

NoSession == [employee_name |-> "", weight_dict |-> <<>>, admin_logged_in |-> FALSE]

\* ------------------------------------------------------ store operations
\* mutant: the worksheet is created anew although it exists
ensure_worksheet_recreate(ws, how) ==
    IF how = "fail" THEN ws
    ELSE [exists |-> TRUE, header |-> TRUE, rows |-> <<>>]

\* ensure_worksheet on the Transactions sheet.  how = "ok": the sheet is returned,
\* created with its header row when it was missing; "fail": an exception before
\* any write.
ensure_worksheet(ws, how) ==
    IF how = "fail" \/ ws.exists THEN ws
    ELSE [exists |-> TRUE, header |-> TRUE, rows |-> <<>>]

EnsureRaises(ws, how) == how = "fail"

EnsureOutcomes == {"ok", "fail"}

\* ws.get_all_records(): the rows under the first row, which is taken as the header
get_all_records(header, rows) ==
    IF header \/ rows = <<>> THEN rows ELSE Tail(rows)

\* the loop of get_materials over the records
RECURSIVE MaterialsOf(_, _)
MaterialsOf(records, materials) ==
    IF records = <<>> THEN materials
    ELSE LET name == records[1][1]
             price == records[1][2]
         IN  MaterialsOf(Tail(records),
                 DictPut(materials, name, IF CanFloat(price) THEN Float(price) ELSE 0))

\* get_materials(); ok = FALSE: the store raised, and {} is returned
get_materials(ok) ==
    IF ok THEN MaterialsOf(get_all_records(prices.header, prices.rows), <<>>)
    ELSE <<>>

\* the rows save_prices writes for prices_dict
PriceRows(prices_dict) ==
    [i \in DOMAIN prices_dict |-> <<prices_dict[i][1], CellOf(prices_dict[i][2])>>]

\* mutant: the sheet is not cleared, the rows are added under the old ones
save_prices_no_clear(prices_dict, done) ==
    [ok |-> done = Len(prices_dict) + 2,
     ws |-> IF done <= 1 THEN prices
            ELSE [header |-> TRUE,
                  rows |-> prices.rows \o SubSeq(PriceRows(prices_dict), 1, done - 2)]]

\* save_prices(prices_dict) after `done` of its writes (clear, header row, one row
\* per entry) succeeded; the next one raised unless all of them were done
save_prices(prices_dict, done) ==
    [ok |-> done = Len(prices_dict) + 2,
     ws |-> IF done = 0 THEN prices
            ELSE IF done = 1 THEN [header |-> FALSE, rows |-> <<>>]
            ELSE [header |-> TRUE, rows |-> SubSeq(PriceRows(prices_dict), 1, done - 2)]]

\* mutant: the amount is cut to whole cents instead of rounded
TransactionRows_truncated(now, employee_name, weight_dict, materials) ==
    [i \in DOMAIN weight_dict |->
        LET mat == weight_dict[i][1]
            w == weight_dict[i][2]
            price == DictGet(materials, mat, 0)
        IN  [date |-> now, employee |-> employee_name, material |-> mat,
             weight |-> w, price |-> price, amount |-> (25 * price * w) \div 4]]

\* the rows append_transactions builds for weight_dict
TransactionRows(now, employee_name, weight_dict, materials) ==
    [i \in DOMAIN weight_dict |->
        LET mat == weight_dict[i][1]
            w == weight_dict[i][2]
            price == DictGet(materials, mat, 0)
            amount == Round2(price * w)
        IN  [date |-> now, employee |-> employee_name, material |-> mat,
             weight |-> w, price |-> price, amount |-> amount]]

\* mutant: a failed batch is rolled back
append_transactions_rollback(employee_name, weight_dict, how, catOk, done) ==
    LET ws == ensure_worksheet(tx, how)
        rows == TransactionRows(clock, employee_name, weight_dict,
                                get_materials(catOk))
        n == IF EnsureRaises(tx, how) THEN 0 ELSE done
    IN  [ok |-> ~EnsureRaises(tx, how) /\ done = Len(rows),
         err |-> IF EnsureRaises(tx, how) THEN "ensure_worksheet raised"
                 ELSE IF done < Len(rows) THEN "append_row raised"
                 ELSE "",
         ws |-> IF done = Len(rows) THEN [ws EXCEPT !.rows = ws.rows \o rows] ELSE ws,
         n |-> n]

\* append_transactions(employee_name, weight_dict): ensure_worksheet ends `how`,
\* get_materials ends catOk, and `done` rows are appended before an append raises
\* (all of them when none does)
append_transactions(employee_name, weight_dict, how, catOk, done) ==
    LET ws == ensure_worksheet(tx, how)
        materials == get_materials(catOk)
        rows == TransactionRows(clock, employee_name, weight_dict, materials)
        n == IF EnsureRaises(tx, how) THEN 0 ELSE done
    IN  [ok |-> ~EnsureRaises(tx, how) /\ done = Len(rows),
         err |-> IF EnsureRaises(tx, how) THEN "ensure_worksheet raised"
                 ELSE IF done < Len(rows) THEN "append_row raised"
                 ELSE "",
         ws |-> [ws EXCEPT !.rows = ws.rows \o SubSeq(rows, 1, n)],
         n |-> n]

Day(t) == t \div 2

\* get_transactions(all_rows)
get_transactions(all_rows, how) ==
    LET ws == ensure_worksheet(tx, how)
        records == get_all_records(ws.header, ws.rows)
    IN  [ws |-> ws,
         records |-> IF EnsureRaises(tx, how) THEN <<>>
                     ELSE IF all_rows THEN records
                     ELSE SelectSeq(records, LAMBDA r : Day(r.date) = Day(clock)),
         err |-> IF EnsureRaises(tx, how) THEN "error" ELSE ""]

\* ------------------------------------------------------------- decorators
\* mutant: the decorator lets every session through
admin_required_any(s) == TRUE

admin_required(s) == session[s].admin_logged_in

employee_required(s) == session[s].employee_name # ""

\* a page rendered from what the request read, or a redirect: the history keeps
\* nothing of it
Rendered == [NoLast EXCEPT !.op = "view"]

Redirected(s, to) == Rendered

\* a form sends "" for the fields the handler does not read, and an outcome names 0
\* for the store calls the handler does not reach
Unread(form, materials) == \A m \in Materials \ DictKeys(materials) : form[m] = ""

\* the Prices sheet as the owner of the spreadsheet filled it in
InitPrices ==
    [header |-> TRUE, rows |-> << <<"Plastic", "2.5">>, <<"Copper", "n/a">> >>]

\* the rows of a payout that a browser outside Sessions submitted before the first
\* state, as employee "Al" at second 0: 1.5 of Plastic and no Copper
EarlierRows ==
    TransactionRows(0, "Al", << <<"Plastic", 6>>, <<"Copper", 0>> >>,
                    MaterialsOf(InitPrices.rows, <<>>))

\* the application starts with no Transactions sheet, or after that earlier payout
Init ==
    /\ prices = InitPrices
    /\ \/ /\ tx = [exists |-> FALSE, header |-> FALSE, rows |-> <<>>]
          /\ txCall = <<>>
       \/ /\ tx = [exists |-> TRUE, header |-> TRUE, rows |-> EarlierRows]
          /\ txCall = [i \in DOMAIN EarlierRows |-> 0]
    /\ nCalls = 0
    /\ clock = 0
    /\ session = [s \in Sessions |-> NoSession]
    /\ sub = [s \in Sessions |-> NoSub]
    /\ last = NoLast

\* --------------------------------------------------------------- handlers
\* employee_login POST
EmployeeLogin(s, raw) ==
    /\ LET name == Strip(raw)
       IN  IF name = ""
           THEN /\ last' = Redirected(s, "to_employee_login")
                /\ UNCHANGED <<session, sub>>
           ELSE /\ session' = [session EXCEPT ![s].employee_name = name,
                                              ![s].weight_dict = <<>>]
                /\ sub' = [sub EXCEPT ![s] = NoSub]
                /\ last' = Rendered
    /\ UNCHANGED <<prices, tx, txCall, nCalls, clock>>

\* mutant: a field float() refuses counts as 0.25 instead of 0
ParseWeight_nonzero(field) ==
    LET stripped == Strip(field)
        raw == IF stripped = "" THEN "0" ELSE stripped
    IN  IF CanFloat(raw) THEN Float(raw) ELSE 1

\* the weight parsed from one form field (employee_payout, lines 289-295)
ParseWeight(field) ==
    LET stripped == Strip(field)
        raw == IF stripped = "" THEN "0" ELSE stripped
    IN  IF CanFloat(raw) THEN Float(raw) ELSE 0

\* a form field that is not empty and that float() refuses
NotNumeric(field) == Strip(field) # "" /\ ~CanFloat(Strip(field))

\* the weight_dict built from the form (employee_payout, lines 287-296)
WeightDict(materials, form) ==
    [i \in DOMAIN materials |-> <<materials[i][1], ParseWeight(form[materials[i][1]])>>]

\* employee_payout GET: the form, rendered from get_materials()
EmployeePayoutGet(s) ==
    /\ last' = IF ~employee_required(s) THEN Redirected(s, "to_employee_login")
               ELSE Rendered
    /\ UNCHANGED <<prices, tx, txCall, nCalls, clock, session, sub>>

\* employee_payout POST
EmployeePayout(s, form, catOk1, how, catOk2, done) ==
    /\ nCalls < MaxCalls
    /\ IF ~employee_required(s)
       THEN /\ form = [m \in Materials |-> ""] /\ catOk1 /\ catOk2
            /\ how = "ok" /\ done = 0
            /\ last' = Redirected(s, "to_employee_login")
            /\ UNCHANGED <<session, tx, txCall, nCalls, sub>>
       ELSE LET employee_name == session[s].employee_name
                materials == get_materials(catOk1)
                weight_dict == WeightDict(materials, form)
                res == append_transactions(employee_name, weight_dict, how,
                                           catOk2, done)
            IN  /\ Unread(form, materials)
                /\ done <= Len(weight_dict)
                /\ EnsureRaises(tx, how) => done = 0
                /\ session' = [session EXCEPT ![s].weight_dict = weight_dict]
                /\ tx' = res.ws
                /\ txCall' = txCall \o [i \in 1..res.n |-> nCalls + 1]
                /\ nCalls' = nCalls + 1
                /\ sub' = [sub EXCEPT ![s] = [called |-> TRUE, ok |-> res.ok,
                                              call |-> nCalls + 1]]
                /\ last' = [NoLast EXCEPT
                               !.op = "payout", !.sess = s, !.ok = res.ok,
                               !.err = res.err, !.catOk = catOk2, !.n = res.n,
                               !.junk = {m \in DictKeys(materials) :
                                           NotNumeric(form[m])}]
    /\ UNCHANGED <<prices, clock>>

\* mutant: the receipt shows the price where the amount belongs
ReceiptItems_price(weight_dict, materials) ==
    [i \in DOMAIN weight_dict |->
        LET mat == weight_dict[i][1]
            weight == weight_dict[i][2]
            price == DictGet(materials, mat, 0)
        IN  [material |-> mat, weight |-> weight, price |-> price,
             amount |-> 25 * price]]

\* the items of the receipt (employee_receipt, lines 324-330)
ReceiptItems(weight_dict, materials) ==
    [i \in DOMAIN weight_dict |->
        LET mat == weight_dict[i][1]
            weight == weight_dict[i][2]
            price == DictGet(materials, mat, 0)
            amount == Round2(price * weight)
        IN  [material |-> mat, weight |-> weight, price |-> price, amount |-> amount]]

\* total = round(sum of the amounts, 2), in cents: a sum of a few amounts of whole
\* cents is within 0.005 of a whole number of cents, and rounds to it
RECURSIVE ReceiptTotal(_)
ReceiptTotal(items) ==
    IF items = <<>> THEN 0 ELSE items[1].amount + ReceiptTotal(Tail(items))

\* employee_receipt
EmployeeReceipt(s, catOk) ==
    /\ last' = IF ~employee_required(s) THEN Redirected(s, "to_employee_login")
               ELSE LET weight_dict == session[s].weight_dict
                        materials == get_materials(catOk)
                        items == ReceiptItems(weight_dict, materials)
                    IN  [NoLast EXCEPT !.op = "receipt", !.sess = s, !.ok = TRUE,
                                       !.catOk = catOk,
                                       !.items = items, !.total = ReceiptTotal(items)]
    /\ UNCHANGED <<prices, tx, txCall, nCalls, clock, session, sub>>

\* the test of admin_login (line 345)
CredentialsOk(user, pwd) == user = ADMIN_USER /\ pwd = ADMIN_PASS

\* admin_login POST
AdminLogin(s, user, pwd) ==
    /\ IF CredentialsOk(user, pwd)
       THEN /\ session' = [session EXCEPT ![s].admin_logged_in = TRUE]
            /\ last' = [NoLast EXCEPT !.op = "admin_login", !.sess = s, !.ok = TRUE,
                                      !.user = user, !.pwd = pwd]
       ELSE /\ UNCHANGED session
            /\ last' = Redirected(s, "to_admin_login")
    /\ UNCHANGED <<prices, tx, txCall, nCalls, clock, sub>>

\* admin_logout
AdminLogout(s) ==
    /\ session' = [session EXCEPT ![s].admin_logged_in = FALSE]
    /\ last' = [NoLast EXCEPT !.op = "admin_logout", !.sess = s]
    /\ UNCHANGED <<prices, tx, txCall, nCalls, clock, sub>>

\* admin_dashboard (all_rows = FALSE) and admin_transactions (all_rows = TRUE)
AdminHistory(s, all_rows, how) ==
    /\ IF ~admin_required(s)
       THEN /\ last' = Redirected(s, "to_admin_login")
            /\ UNCHANGED tx
       ELSE LET res == get_transactions(all_rows, how)
            IN  /\ tx' = res.ws
                /\ last' = Rendered
    /\ UNCHANGED <<prices, txCall, nCalls, clock, session, sub>>

AdminDashboard(s, how) == AdminHistory(s, FALSE, how)

AdminTransactions(s, how) == AdminHistory(s, TRUE, how)

\* admin_prices GET: the form, rendered from get_materials()
AdminPricesGet(s) ==
    /\ last' = IF ~admin_required(s) THEN Redirected(s, "to_admin_login")
               ELSE Rendered
    /\ UNCHANGED <<prices, tx, txCall, nCalls, clock, session, sub>>

\* the fields of the form read by admin_prices: those of the materials read
FieldsRead(materials, form) ==
    [i \in DOMAIN materials |-> <<materials[i][1], Strip(form[materials[i][1]])>>]

\* a field that makes admin_prices flash "Invalid price" and return (lines 397-401)
InvalidPrice(raw) == raw # "" /\ ~CanFloat(raw)

\* new_prices: the non-empty fields, parsed (admin_prices, lines 391-398)
NewPrices(fields) ==
    LET given == SelectSeq(fields, LAMBDA f : f[2] # "")
    IN  [i \in DOMAIN given |-> <<given[i][1], Float(given[i][2])>>]

\* admin_prices POST; get_materials ends catOk and save_prices after `done` writes
AdminPrices(s, form, catOk, done) ==
    /\ IF ~admin_required(s)
       THEN /\ form = [m \in Materials |-> ""] /\ catOk /\ done = 0
            /\ last' = Redirected(s, "to_admin_login")
            /\ UNCHANGED prices
       ELSE LET materials == get_materials(catOk)
                fields == FieldsRead(materials, form)
            IN  IF \E i \in DOMAIN fields : InvalidPrice(fields[i][2])
                THEN /\ Unread(form, materials)
                     /\ done = 0
                     /\ last' = [NoLast EXCEPT
                                    !.op = "admin_prices", !.sess = s,
                                    !.err = "Invalid price"]
                     /\ UNCHANGED prices
                ELSE LET new_prices == NewPrices(fields)
                         merged == DictUpdate(materials, new_prices)
                         res == save_prices(merged, done)
                     IN  /\ Unread(form, materials)
                         /\ done <= Len(merged) + 2
                         /\ prices' = res.ws
                         /\ last' = IF res.ok
                                    THEN [NoLast EXCEPT
                                            !.op = "admin_prices", !.sess = s,
                                            !.ok = TRUE, !.wrote = TRUE,
                                            !.before = prices.rows,
                                            !.merged = merged,
                                            !.provided = DictKeys(new_prices)]
                                    ELSE [NoLast EXCEPT
                                            !.op = "admin_prices", !.sess = s,
                                            !.wrote = TRUE, !.err = "error"]
    /\ UNCHANGED <<tx, txCall, nCalls, clock, session, sub>>

\* a second passes
Tick ==
    /\ clock < MaxClock
    /\ clock' = clock + 1
    /\ last' = [NoLast EXCEPT !.op = "tick"]
    /\ UNCHANGED <<prices, tx, txCall, nCalls, session, sub>>

Forms(inputs) == [Materials -> inputs]

\* the browsers that log in as an employee, and those that log in as the admin;
\* every browser sends every other request
EmployeeSessions == {"s1"}
AdminSessions == {"s2"}

Next ==
    \/ Tick
    \/ \E s \in EmployeeSessions, raw \in NameInputs : EmployeeLogin(s, raw)
    \/ \E s \in Sessions : EmployeePayoutGet(s)
    \/ \E s \in Sessions, form \in Forms(WeightInputs), catOk1 \in BOOLEAN,
          how \in EnsureOutcomes, catOk2 \in BOOLEAN,
          done \in 0..Cardinality(Materials) :
            EmployeePayout(s, form, catOk1, how, catOk2, done)
    \/ \E s \in Sessions, catOk \in BOOLEAN : EmployeeReceipt(s, catOk)
    \/ \E s \in AdminSessions, user \in Users, pwd \in Passwords :
            AdminLogin(s, user, pwd)
    \/ \E s \in AdminSessions : AdminLogout(s)
    \/ \E s \in Sessions, how \in EnsureOutcomes : AdminDashboard(s, how)
    \/ \E s \in Sessions, how \in EnsureOutcomes : AdminTransactions(s, how)
    \/ \E s \in Sessions : AdminPricesGet(s)
    \/ \E s \in Sessions, form \in Forms(PriceInputs), catOk \in BOOLEAN,
          done \in 0..(Cardinality(Materials) + 2) :
            AdminPrices(s, form, catOk, done)

Spec == Init /\ [][Next]_vars

\* ----------------------------------------------------------------- claims
IsPrefix(a, b) == Len(a) <= Len(b) /\ SubSeq(b, 1, Len(a)) = a

\* the last n rows of the Transactions log
LastRows(n) == SubSeq(tx.rows, Len(tx.rows) - n + 1, Len(tx.rows))

\* the rows of the log that call c appended, in their order
CallRows(c) ==
    LET idx == {i \in DOMAIN txCall : txCall[i] = c}
    IN  IF idx = {} THEN <<>>
        ELSE LET first == CHOOSE i \in idx : \A j \in idx : i <= j
             IN  [k \in 1..Cardinality(idx) |-> tx.rows[first + k - 1]]

\* a (cents) is x (sixteenths) rounded to the nearest cent, a tie to the even cent
NearestCents(a, x) ==
    LET d == 25 * x - 4 * a
    IN  (-2 < d /\ d < 2) \/ ((d = 2 \/ d = -2) /\ a % 2 = 0)

RECURSIVE SumAmounts(_)
SumAmounts(rows) ==
    IF rows = <<>> THEN 0 ELSE rows[1].amount + SumAmounts(Tail(rows))

\* the rows the last payout's call of append_transactions built
PayoutRows ==
    TransactionRows(clock, session[last.sess].employee_name,
                    session[last.sess].weight_dict, get_materials(last.catOk))

\* what a stored row says about the submission it belongs to: the columns Date and
\* Employee (TRANSACTIONS_HEADERS has no identifier column)
TransactionTag(row) == <<row.date, row.employee>>

\* C1: no row appended by a payout and no line of a receipt has a weight <= 0.
C1_NoNonPositiveWeight ==
    /\ \A i \in DOMAIN tx.rows : txCall[i] # 0 => tx.rows[i].weight > 0
    /\ last.op = "receipt" => \A i \in DOMAIN last.items : last.items[i].weight > 0

\* C2: the rows of two different calls of append_transactions can be told apart by
\* what the call tagged them with.
C2_CallsToldApart ==
    \A i, j \in DOMAIN tx.rows :
        txCall[i] # txCall[j] => TransactionTag(tx.rows[i]) # TransactionTag(tx.rows[j])

\* C3: right after save_prices(P) returned (True, None), a get_materials() that reads
\* the sheet returns exactly P.
C3_SaveThenGet ==
    (last.op = "admin_prices" /\ last.ok) => get_materials(TRUE) = last.merged

\* C3 witness: a successful save whose P lacks a material the sheet held before it.
C3_Witness ==
    /\ last.op = "admin_prices" /\ last.ok
    /\ \E i \in DOMAIN last.before : last.before[i][1] \notin DictKeys(last.merged)

\* C4: when append_transactions returns (True, None) every line with a weight > 0 is
\* in the log, appended by this call; when it returns an error, the rows it appended
\* before the failure are the last rows of the log.
C4_AllOrError ==
    last.op = "payout" =>
        LET wd == session[last.sess].weight_dict
            c == sub[last.sess].call
            first == Len(tx.rows) - last.n
        IN  /\ last.ok = (last.err = "")
            /\ last.n <= Len(tx.rows)
            /\ Len(txCall) = Len(tx.rows)
            /\ \A k \in 1..last.n : txCall[first + k] = c
            /\ LastRows(last.n) = SubSeq(PayoutRows, 1, last.n)
            /\ last.ok =>
                 \A i \in DOMAIN wd : wd[i][2] > 0 =>
                     \E k \in 1..last.n : tx.rows[first + k] = PayoutRows[i]

\* C4 witness: an append failed after a row of the batch was written.
C4_Witness == last.op = "payout" /\ ~last.ok /\ last.n >= 1

C6_AmountOfRow ==
    last.op = "payout" =>
        /\ last.n <= Len(tx.rows)
        /\ \A k \in 1..last.n :
             LET row == tx.rows[Len(tx.rows) - last.n + k]
             IN  /\ row.price = DictGet(get_materials(last.catOk), row.material, 0)
                 /\ NearestCents(row.amount, row.weight * row.price)
                 /\ ~last.catOk => (row.price = 0 /\ row.amount = 0)
        /\ (last.n = Len(session[last.sess].weight_dict)
              /\ last.err # "ensure_worksheet raised") => last.ok

\* C6 witness: the catalog read of the call failed and a row with a weight > 0 was
\* saved.
C6_Witness ==
    /\ last.op = "payout" /\ last.ok /\ ~last.catOk /\ last.n >= 1
    /\ \E k \in 1..last.n : tx.rows[Len(tx.rows) - last.n + k].weight > 0

\* C7: every step leaves the rows the Transactions log held as a prefix of its rows.
C7_AppendOnly == [][IsPrefix(tx.rows, tx'.rows)]_vars

\* C7 witness: a payout appended rows under those of the earlier payout.
C7_Witness ==
    /\ \E i \in DOMAIN txCall : txCall[i] = 0
    /\ \E i \in DOMAIN txCall : txCall[i] # 0

\* C8: a successful admin price update leaves every entry it was given no input for
\* as it was in the sheet before the write.
C8_OthersUnchanged ==
    (last.op = "admin_prices" /\ last.ok) =>
        LET old == MaterialsOf(last.before, <<>>)
            new == get_materials(TRUE)
        IN  \A m \in DictKeys(old) \ last.provided :
                m \in DictKeys(new) /\ DictGet(new, m, 0) = DictGet(old, m, 0)

\* C9 as stated: the receipt shown after a saved payout has, line by line, the unit
\* price and the amount of the rows of that payout, and their sum as its total.
C9_ReceiptMatchesRows ==
    (last.op = "receipt" /\ sub[last.sess].called /\ sub[last.sess].ok) =>
        LET rows == CallRows(sub[last.sess].call)
        IN  /\ Len(rows) = Len(last.items)
            /\ \A i \in DOMAIN rows :
                 /\ last.items[i].material = rows[i].material
                 /\ last.items[i].price = rows[i].price
                 /\ last.items[i].amount = rows[i].amount
            /\ last.total = SumAmounts(rows)

\* C9 amended: the receipt shown after a saved payout has the materials and weights
\* of the rows of that payout; each unit price is the one of the catalog read when
\* the receipt is shown (0 when absent), each amount is round(weight x that price, 2)
\* and the total is their sum; a line whose unit price equals the one of its row has
\* the amount of its row.
C9_Amended ==
    (last.op = "receipt" /\ sub[last.sess].called /\ sub[last.sess].ok) =>
        LET rows == CallRows(sub[last.sess].call)
            shown == get_materials(last.catOk)
        IN  /\ Len(rows) = Len(last.items)
            /\ \A i \in DOMAIN rows :
                 LET item == last.items[i]
                 IN  /\ item.material = rows[i].material
                     /\ item.weight = rows[i].weight
                     /\ item.price = DictGet(shown, item.material, 0)
                     /\ NearestCents(item.amount, item.weight * item.price)
                     /\ item.price = rows[i].price => item.amount = rows[i].amount
            /\ last.total = SumAmounts(last.items)

\* C9 witness: a receipt shown after a price of a submitted material changed.
C9_Witness ==
    /\ last.op = "receipt" /\ last.catOk
    /\ sub[last.sess].called /\ sub[last.sess].ok
    /\ \E i \in DOMAIN last.items :
         /\ last.items[i].weight > 0
         /\ last.items[i].amount # CallRows(sub[last.sess].call)[i].amount

\* C10: save_prices runs only in a request of a session with admin_logged_in set; the
\* flag is set only by an admin_login POST with ADMIN_USER and ADMIN_PASS; the Prices
\* sheet changes only through save_prices; admin_logout leaves the flag unset.
C10_AdminGate ==
    [][/\ last'.wrote => session[last'.sess].admin_logged_in
       /\ prices' # prices => (last'.op = "admin_prices" /\ last'.wrote)
       /\ \A s \in Sessions :
            (~session[s].admin_logged_in /\ session'[s].admin_logged_in) =>
                /\ last'.op = "admin_login" /\ last'.sess = s
                /\ last'.user = ADMIN_USER /\ last'.pwd = ADMIN_PASS
       /\ last'.op = "admin_logout" => ~session'[last'.sess].admin_logged_in]_vars

\* C10 witness: a logged-in admin's request overwrote the Prices sheet.
C10_Witness ==
    /\ last.op = "admin_prices" /\ last.wrote
    /\ session[last.sess].admin_logged_in
=============================================================================
